---- MODULE Spec2Model ----
(***************************************************************************)
(* vc-monitor: the Node / DCTree hierarchy of Tree.py and the inventory    *)
(* builder and query builder of Monitor.py, as a state machine.            *)
(*                                                                         *)
(* Node objects live in `heap`: a Node is identified by its position in    *)
(* the heap (its object identity), which is distinct from its `id` field.  *)
(* DCTree objects live in `trees`.  None is modelled as 0 where a node or  *)
(* an integer is expected.                                                 *)
(***************************************************************************)
EXTENDS Integers, Sequences, FiniteSets, TLC

\* ---- bounds of the model ------------------------------------------------
MaxNodes == 3      \* Node objects created
MaxExtra == 1      \* child edges appended beyond the one each child is created with
MaxTrees == 2      \* DCTree objects constructed
MaxUpdates == 1    \* update_struct calls on one DCTree after its construction
MaxObjects == 7    \* managed objects of the server (datacenters, folders below
                   \* a host folder, compute resources, hosts, virtual machines)
MaxDepth == 1      \* folders nested below a host folder
MaxIntervals == 2  \* entries of Monitor.historical_intervals
MaxCounters == 2   \* performance counters of the server
MaxInstances == 2  \* instances of a counter the provider reports for an entity
MaxTimestamps == 2 \* samples in one result of the provider

None == 0

VARIABLES
    heap,          \* Seq of Node objects
    global_id,     \* Node.global_id
    trees,         \* Seq of DCTree objects [root, nodes, leaf]
    reset_called,  \* history: Node.reset_id has been called
    updates,       \* history: per DCTree, the update_struct calls made on it
    last,          \* the last call made and how it ended
    gens,          \* the generators made by DCTree._bfs(root_) that are being advanced
    datacenter_view,  \* Monitor.datacenter_view: the datacenters of the server
    mtrees,        \* Monitor.trees: the DCTree objects, as positions in trees
    mnodes,        \* Monitor.nodes
    id_map,        \* Monitor.id_map
    name_map,      \* Monitor.name_map
    all_counters,          \* Monitor.all_counters: counter key -> unit label
    historical_intervals,  \* Monitor.historical_intervals
    current_supported,     \* Monitor.current_supported: <<>> is None, <<b>> is b
    summary_supported,     \* Monitor.summary_supported: <<>> is None, <<b>> is b
    refresh_rate           \* Monitor.refresh_rate

treeVars == <<heap, global_id, trees, reset_called, updates>>
monVars == <<datacenter_view, mtrees, mnodes, id_map, name_map>>
perfVars == <<all_counters, historical_intervals, current_supported, summary_supported, refresh_rate>>
genVars == <<gens>>
vars == <<treeVars, monVars, perfVars, genVars, last>>

\* ---- helpers --------------------------------------------------------------
Range(s) == {s[i] : i \in DOMAIN s}

NoDup(s) == \A i, j \in DOMAIN s : i # j => s[i] # s[j]

RECURSIVE SumLen(_, _)
SumLen(h, n) == IF n = 0 THEN 0 ELSE Len(h[n].children) + SumLen(h, n - 1)

\* child edges that were not made together with the child
ExtraEdges(h) ==
    SumLen(h, Len(h)) - Cardinality({n \in DOMAIN h : ~(Len(h[n].parents) = 0)})

\* ---- Tree.py: Node --------------------------------------------------------
\* Node.__init__
NodeInit(parents, value, children, gid) ==
    [parents |-> parents, value |-> value, children |-> children, id |-> gid,
     visited |-> FALSE, span_parent |-> None, distance |-> 0]

\* mutant of NextId: the counter is not advanced
NextIdStuck(gid) == gid

\* `Node.global_id += 1`
NextId(gid) == gid + 1

\* mutant of is_root: looks at the children instead of the parents
is_root_children(n) == Len(n.children) = 0

\* Node.is_root
is_root(n) == Len(n.parents) = 0

\* Node.is_leaf
is_leaf(n) == Len(n.children) = 0

\* ---- Tree.py: DCTree._bfs -------------------------------------------------
\* mutant of BfsChildren: a visited child is not enqueued again, but its
\* span_parent and distance are overwritten by every parent that lists it
RECURSIVE BfsChildrenOverwrite(_, _, _, _)
BfsChildrenOverwrite(h, q, u, i) ==
    IF i > Len(h[u].children) THEN [h |-> h, q |-> q]
    ELSE LET c == h[u].children[i]
             h2 == [h EXCEPT ![c].visited = TRUE,
                             ![c].span_parent = u,
                             ![c].distance = h[u].distance + 1]
         IN  IF ~h[c].visited
             THEN BfsChildrenOverwrite(h2, Append(q, c), u, i + 1)
             ELSE BfsChildrenOverwrite(h2, q, u, i + 1)

\* the loop `for c in u.children` of _bfs, from the i-th child on
\* mutant of BfsChildren: q.put(c) outside the `if not c.visited`
RECURSIVE BfsChildrenPutAll(_, _, _, _)
BfsChildrenPutAll(h, q, u, i) ==
    IF i > Len(h[u].children) THEN [h |-> h, q |-> q]
    ELSE LET c == h[u].children[i] IN
         IF ~h[c].visited
         THEN BfsChildrenPutAll([h EXCEPT ![c].visited = TRUE, ![c].span_parent = u,
                                          ![c].distance = h[u].distance + 1],
                                Append(q, c), u, i + 1)
         ELSE BfsChildrenPutAll(h, Append(q, c), u, i + 1)

RECURSIVE BfsChildren(_, _, _, _)
BfsChildren(h, q, u, i) ==
    IF i > Len(h[u].children) THEN [h |-> h, q |-> q]
    ELSE LET c == h[u].children[i] IN
         IF ~h[c].visited
         THEN BfsChildren([h EXCEPT ![c].visited = TRUE,
                                    ![c].span_parent = u,
                                    ![c].distance = h[u].distance + 1],
                          Append(q, c), u, i + 1)
         ELSE BfsChildren(h, q, u, i + 1)

\* the loop `while not q.empty()` of _bfs; out is the sequence yielded so far
RECURSIVE BfsLoop(_, _, _)
BfsLoop(h, q, out) ==
    IF q = <<>> THEN [h |-> h, out |-> out]
    ELSE LET u == Head(q)
             r == BfsChildren(h, Tail(q), u, 1)
         IN  BfsLoop(r.h, r.q, Append(out, u))

\* _bfs run to exhaustion: the heap afterwards and the nodes yielded, in order
bfs(h, root_) == BfsLoop([h EXCEPT ![root_].visited = TRUE], <<root_>>, <<>>)

\* ---- Tree.py: DCTree ------------------------------------------------------
\* `for n in self.nodes: n.visited = False`
ResetVisited(h, nodes) ==
    [n \in DOMAIN h |-> IF n \in Range(nodes) THEN [h[n] EXCEPT !.visited = FALSE]
                        ELSE h[n]]

\* DCTree.update_struct on tree object tr, started at node start
update_struct(h, tr, start) ==
    LET h1 == ResetVisited(h, tr.nodes)
        r  == bfs(h1, start)
    IN  [h    |-> r.h,
         out  |-> r.out,
         tree |-> [root  |-> tr.root,
                   nodes |-> tr.nodes \o r.out,
                   leaf  |-> tr.leaf \o SelectSeq(r.out, LAMBDA n : is_leaf(r.h[n]))]]

\* DCTree.__init__ with root_ a Node: the error raised ("" for none), the heap
\* afterwards, the new object and the nodes its traversal yielded
DCTree(h, root_) ==
    IF ~is_root(h[root_])
    THEN [err |-> "ValueError", h |-> h, out |-> <<>>,
          tree |-> [root |-> None, nodes |-> <<>>, leaf |-> <<>>]]
    ELSE LET r == update_struct(h, [root |-> root_, nodes |-> <<>>, leaf |-> <<>>],
                                root_)
         IN  [err |-> "", h |-> r.h, out |-> r.out, tree |-> r.tree]

\* DCTree.search: the first node of the list with the id, or None
RECURSIVE search(_, _, _, _)
search(h, nodes, id_, i) ==
    IF i > Len(nodes) THEN None
    ELSE IF h[nodes[i]].id = id_ THEN nodes[i]
    ELSE search(h, nodes, id_, i + 1)

\* ---- what the calls are measured against ----------------------------------
\* the nodes reachable from the nodes of S through child edges
RECURSIVE ReachFrom(_, _)
ReachFrom(h, S) ==
    LET T == S \cup {c \in DOMAIN h : \E n \in S : c \in Range(h[n].children)}
    IN  IF T = S THEN S ELSE ReachFrom(h, T)

Reachable(h, start) == ReachFrom(h, {start})

\* no node reachable from start is marked visited
Unvisited(h, start) == \A n \in Reachable(h, start) : ~h[n].visited

\* ---- the calls ------------------------------------------------------------
NoCall == [op |-> "none", tree |-> 0, start |-> 0, err |-> "", out |-> <<>>,
           fresh |-> FALSE]

\* the two traversals that are advanced in turns
Traversals == {1, 2}

\* no generator object has been made
NoGenerator == [pc |-> "none", root |-> None, q |-> <<>>, u |-> None, out |-> <<>>]

\* Node.global_id = 1 and no object yet
InitTree ==
    /\ heap = <<>>
    /\ global_id = 1
    /\ trees = <<>>
    /\ reset_called = FALSE
    /\ updates = <<>>
    /\ last = NoCall
    /\ gens = [g \in Traversals |-> NoGenerator]

\* Monitor.__init__
InitMonitor ==
    /\ mtrees = <<>>
    /\ mnodes = <<>>
    /\ id_map = <<>>
    /\ name_map = <<>>
    /\ all_counters = <<>>
    /\ historical_intervals = <<>>
    /\ current_supported = <<>>
    /\ summary_supported = <<>>
    /\ refresh_rate = -1

Init ==
    /\ InitTree
    /\ InitMonitor
    /\ datacenter_view = <<>>

\* root = Node([], value, [])
NewRoot ==
    /\ Len(heap) < MaxNodes
    /\ trees = <<>>
    /\ heap' = Append(heap, NodeInit(<<>>, "obj", <<>>, global_id))
    /\ global_id' = NextId(global_id)
    /\ last' = NoCall
    /\ UNCHANGED <<trees, reset_called, updates>>
    /\ UNCHANGED <<monVars, perfVars, genVars>>

\* child = Node([p], value, []); p.children.append(child)
NewChild ==
    /\ Len(heap) < MaxNodes
    /\ trees = <<>>
    /\ \E p \in DOMAIN heap :
          heap' = Append([heap EXCEPT ![p].children = Append(@, Len(heap) + 1)],
                         NodeInit(<<p>>, "obj", <<>>, global_id))
    /\ global_id' = NextId(global_id)
    /\ last' = NoCall
    /\ UNCHANGED <<trees, reset_called, updates>>
    /\ UNCHANGED <<monVars, perfVars, genVars>>

\* u.children.append(c) for an existing node c: a second path to c
AppendChild ==
    /\ ExtraEdges(heap) < MaxExtra
    /\ trees = <<>>
    /\ \E u, c \in DOMAIN heap :
          heap' = [heap EXCEPT ![u].children = Append(@, c)]
    /\ last' = NoCall
    /\ UNCHANGED <<global_id, trees, reset_called, updates>>
    /\ UNCHANGED <<monVars, perfVars, genVars>>

\* Node.reset_id
ResetId ==
    /\ global_id' = 1
    /\ reset_called' = TRUE
    /\ last' = NoCall
    /\ UNCHANGED <<heap, trees, updates>>
    /\ UNCHANGED <<monVars, perfVars, genVars>>

\* DCTree(root_) with root_ a Node, while fewer than max objects exist
DCTreeInit(max) ==
    /\ \E root_ \in DOMAIN heap :
       \E r \in {DCTree(heap, root_)} :
          /\ r.err = "" => Len(trees) < max
          /\ heap' = r.h
          /\ trees' = IF r.err = "" THEN Append(trees, r.tree) ELSE trees
          /\ updates' = IF r.err = "" THEN Append(updates, 0) ELSE updates
          /\ last' = [op |-> "DCTree", tree |-> IF r.err = "" THEN Len(trees) + 1 ELSE 0,
                      start |-> root_, err |-> r.err, out |-> r.out,
                      fresh |-> Unvisited(heap, root_)]
    /\ UNCHANGED <<global_id, reset_called>>
    /\ UNCHANGED <<monVars, perfVars, genVars>>

\* t.update_struct() and t.update_struct(root_)
UpdateStruct ==
    \E t \in DOMAIN trees :
       /\ updates[t] < MaxUpdates
       /\ \E arg \in {None} \cup DOMAIN heap :
          \E start \in {IF arg = None THEN trees[t].root ELSE arg} :
          \E r \in {update_struct(heap, trees[t], start)} :
                /\ heap' = r.h
                /\ trees' = [trees EXCEPT ![t] = r.tree]
                /\ last' = [op |-> "update_struct", tree |-> t, start |-> start,
                            err |-> "", out |-> r.out,
                            fresh |-> Unvisited(ResetVisited(heap, trees[t].nodes),
                                                start)]
       /\ updates' = [updates EXCEPT ![t] = @ + 1]
       /\ UNCHANGED <<global_id, reset_called>>
       /\ UNCHANGED <<monVars, perfVars, genVars>>

\* t.search(id_)
Search ==
    /\ \E t \in DOMAIN trees : \E id_ \in 1..MaxNodes :
          last' = [NoCall EXCEPT !.op = "search",
                                 !.start = search(heap, trees[t].nodes, id_, 1)]
    /\ UNCHANGED <<heap, global_id, trees, reset_called, updates>>
    /\ UNCHANGED <<monVars, perfVars, genVars>>

\* the hierarchy calls of Tree.py on a graph wired beforehand
Next ==
    \/ NewRoot
    \/ NewChild
    \/ AppendChild
    \/ DCTreeInit(MaxTrees)
    \/ UpdateStruct

Spec == Init /\ [][Next]_vars

\* wiring and constructions only
NextCtor ==
    \/ NewRoot
    \/ NewChild
    \/ AppendChild
    \/ DCTreeInit(MaxTrees)

SpecCtor == Init /\ [][NextCtor]_vars

\* a single hierarchy on properly wired nodes, with Node.reset_id and
\* DCTree.search
NextIds ==
    \/ NewRoot
    \/ NewChild
    \/ ResetId
    \/ DCTreeInit(1)
    \/ UpdateStruct
    \/ Search

SpecIds == Init /\ [][NextIds]_vars
\* ---- claims about Tree.py -------------------------------------------------
\* every visited flag cleared
ClearAll(h) == [n \in DOMAIN h |-> [h[n] EXCEPT !.visited = FALSE]]

\* breadth-first discovery order from root over nodes never traversed
RefOrder(h, root_) == bfs(ClearAll(h), root_).out

\* C1 (as claimed): with a single hierarchy on a graph that is not modified,
\* after the construction and after any later update_struct call the node
\* list is exactly the nodes reachable from the root, each once, in
\* breadth-first discovery order.
C1_NodeListExact ==
    Len(trees) = 1 =>
        /\ NoDup(trees[1].nodes)
        /\ Range(trees[1].nodes) = Reachable(heap, trees[1].root)
        /\ trees[1].nodes = RefOrder(heap, trees[1].root)

\* C2 (as claimed): right after update_struct returns, every node of the
\* hierarchy's node list has visited = FALSE.
C2_VisitedClearedAfterRefresh ==
    last.op = "update_struct" =>
        \A n \in Range(trees[last.tree].nodes) : ~heap[n].visited

\* C3 (as claimed): after every successful DCTree construction on a parentless
\* root, whatever traversals ran before, the node list holds every node
\* reachable from the root and the leaf list every reachable childless node.
C3_ConstructionFullTraversal ==
    (last.op = "DCTree" /\ last.err = "") =>
        LET t == trees[last.tree] IN
        /\ Reachable(heap, t.root) \subseteq Range(t.nodes)
        /\ {n \in Reachable(heap, t.root) : is_leaf(heap[n])} \subseteq Range(t.leaf)

\* the nodes yielded by the last traversal that list c as a child
Listers(c) == {j \in DOMAIN last.out : c \in Range(heap[last.out[j]].children)}

\* the first of them to be dequeued
FirstLister(c) == CHOOSE j \in Listers(c) : \A k \in Listers(c) : j <= k

\* C4: a breadth-first traversal that starts with every node reachable from
\* the start unvisited yields every reachable node exactly once, and each
\* yielded node other than the start has as span_parent the first dequeued
\* node that lists it as a child, and as distance that node's distance + 1.
C4_SharedChildFirstParent ==
    (last.op \in {"DCTree", "update_struct"} /\ last.err = "" /\ last.fresh) =>
        /\ NoDup(last.out)
        /\ Range(last.out) = Reachable(heap, last.start)
        /\ \A i \in 2..Len(last.out) :
              LET c == last.out[i] IN
              /\ Listers(c) # {}
              /\ FirstLister(c) < i
              /\ heap[c].span_parent = last.out[FirstLister(c)]
              /\ heap[c].distance = heap[last.out[FirstLister(c)]].distance + 1

\* C4 witness: a traversal from unvisited nodes has yielded a child that two
\* of the yielded nodes list
C4_Witness ==
    /\ last.op \in {"DCTree", "update_struct"} /\ last.err = "" /\ last.fresh
    /\ \E i \in 2..Len(last.out) : Cardinality(Listers(last.out[i])) >= 2

\* C7: DCTree(node) raises ValueError exactly when the node has a parent, and
\* the failed call changes no node and no hierarchy.
C7_NotRootError ==
    [][last'.op = "DCTree" =>
          /\ (last'.err = "ValueError") <=> (Len(heap[last'.start].parents) >= 1)
          /\ (last'.err = "") <=> (Len(heap[last'.start].parents) = 0)
          /\ last'.err = "ValueError" => (heap' = heap /\ trees' = trees)
          /\ last'.err = "" => Len(trees') = Len(trees) + 1]_vars

\* C7 witness: a construction on a node with a parent has failed after an
\* earlier construction marked that node visited
C7_Witness ==
    /\ last.op = "DCTree" /\ last.err = "ValueError"
    /\ Len(heap[last.start].parents) >= 1
    /\ heap[last.start].visited

\* C8: while reset_id has not been called every Node has an id greater than
\* the id of every Node created before it, and no call changes the id of an
\* existing Node.
C8_IdsIncreaseAndNeverChange ==
    [][/\ ~reset_called' =>
             \A i, j \in DOMAIN heap' : i < j => heap'[i].id < heap'[j].id
       /\ \A n \in DOMAIN heap : heap'[n].id = heap[n].id]_vars

\* C8 witness: several nodes created without a reset, traversed twice and
\* searched
C8_Witness ==
    /\ ~reset_called
    /\ Len(heap) >= 3
    /\ Len(trees) = 1 /\ updates[1] >= 1
    /\ last.op = "search" /\ last.start # None

\* ---- the server's inventory (pyVmomi managed objects) ---------------------
\* a managed object: kind is its class; a vim.Folder has childEntity, a
\* compute resource has host, a host has vm
VirtualMachine ==
    [kind |-> "VirtualMachine", name |-> "vm", childEntity |-> <<>>,
     host |-> <<>>, vm |-> <<>>]

HostSystem(vms) ==
    [kind |-> "HostSystem", name |-> "host", childEntity |-> <<>>,
     host |-> <<>>, vm |-> vms]

ComputeResource(hosts) ==
    [kind |-> "ComputeResource", name |-> "cluster", childEntity |-> <<>>,
     host |-> hosts, vm |-> <<>>]

Folder(children) ==
    [kind |-> "Folder", name |-> "folder", childEntity |-> children,
     host |-> <<>>, vm |-> <<>>]

Datacenter(folder) == [kind |-> "Datacenter", name |-> "dc", hostFolder |-> folder]

\* the number of managed objects in a sequence of objects and below them
RECURSIVE Weight(_)
RECURSIVE WeightSeq(_)
Weight(o) == 1 + WeightSeq(o.childEntity) + WeightSeq(o.host) + WeightSeq(o.vm)

WeightSeq(os) == IF os = <<>> THEN 0 ELSE Weight(Head(os)) + WeightSeq(Tail(os))

DcWeight(dc) == 1 + WeightSeq(dc.hostFolder.childEntity)

\* The inventories of at most n managed objects.
Hosts(n) == {HostSystem([i \in 1..k |-> VirtualMachine]) : k \in 0..(n - 1)}

\* sequences of hosts
RECURSIVE HostSeqs(_)
HostSeqs(n) ==
    {<<>>} \cup UNION {{<<h>> \o r : r \in HostSeqs(n - Weight(h))} : h \in Hosts(n)}

Crs(n) == IF n < 1 THEN {} ELSE {ComputeResource(hs) : hs \in HostSeqs(n - 1)}

\* hosts, compute resources and folders nested up to d deep, and sequences
\* of them
RECURSIVE Entries(_, _)
RECURSIVE EntrySeqs(_, _)
Entries(n, d) ==
    Hosts(n) \cup Crs(n) \cup
    (IF d > 0 /\ n >= 1 THEN {Folder(es) : es \in EntrySeqs(n - 1, d - 1)} ELSE {})

EntrySeqs(n, d) ==
    {<<>>} \cup
    UNION {{<<e>> \o r : r \in EntrySeqs(n - Weight(e), d)} : e \in Entries(n, d)}

Dcs(n) ==
    IF n < 1 THEN {} ELSE {Datacenter(Folder(es)) : es \in EntrySeqs(n - 1, MaxDepth)}

\* sequences of datacenters
RECURSIVE Views(_)
Views(n) ==
    {<<>>} \cup UNION {{<<dc>> \o r : r \in Views(n - DcWeight(dc))} : dc \in Dcs(n)}

\* ---- Monitor.py: the inventory builder ------------------------------------
\* mutant of get_child_objects: a folder is unwrapped one level only
get_child_objects_shallow(folder_or_object, results) ==
    IF folder_or_object.kind = "Folder"
    THEN results \o folder_or_object.childEntity
    ELSE Append(results, folder_or_object)

\* Monitor.get_child_objects; hasattr(o, 'childEntity') holds of folders
RECURSIVE get_child_objects(_, _)
RECURSIVE GetChildLoop(_, _, _)
get_child_objects(folder_or_object, results) ==
    IF folder_or_object.kind = "Folder"
    THEN GetChildLoop(folder_or_object.childEntity, 1, results)
    ELSE Append(results, folder_or_object)

\* `for folder_or_object in folder_or_object.childEntity`, from the i-th on
GetChildLoop(children, i, results) ==
    IF i > Len(children) THEN results
    ELSE GetChildLoop(children, i + 1, get_child_objects(children[i], results))

\* a Node's reference to its managed object: the object without what it
\* contains
Ref(o) == [kind |-> o.kind, name |-> o.name]

\* child = Node([parent], value, []); parent.children.append(child), on the
\* heap and counter st
AddChildNode(st, parent, value) ==
    [h   |-> Append([st.h EXCEPT ![parent].children = Append(@, Len(st.h) + 1)],
                    NodeInit(<<parent>>, Ref(value), <<>>, st.gid)),
     gid |-> NextId(st.gid)]

\* `for vm in h.vm` of _build_dc_tree, from the i-th on
RECURSIVE AddVms(_, _, _, _)
AddVms(st, hostNode, vms, i) ==
    IF i > Len(vms) THEN st
    ELSE AddVms(AddChildNode(st, hostNode, vms[i]), hostNode, vms, i + 1)

\* `for h in h_cr.host` of _build_dc_tree, from the i-th on
RECURSIVE AddHosts(_, _, _, _)
AddHosts(st, crNode, hosts, i) ==
    IF i > Len(hosts) THEN st
    ELSE LET cr_child == Len(st.h) + 1
         IN  AddHosts(AddVms(AddChildNode(st, crNode, hosts[i]), cr_child,
                             hosts[i].vm, 1),
                      crNode, hosts, i + 1)

\* `for h_cr in host_folder_list` of _build_dc_tree, from the i-th on
RECURSIVE AddHostFolderList(_, _, _, _)
AddHostFolderList(st, root, list, i) ==
    IF i > Len(list) THEN st
    ELSE LET h_cr == list[i]
             root_child == Len(st.h) + 1
         IN  AddHostFolderList(
                 IF h_cr.kind = "HostSystem"
                 THEN AddVms(AddChildNode(st, root, h_cr), root_child, h_cr.vm, 1)
                 ELSE AddHosts(AddChildNode(st, root, h_cr), root_child, h_cr.host, 1),
                 root, list, i + 1)

\* Monitor._build_dc_tree: the heap and counter afterwards and the DCTree
build_dc_tree(h, gid, dc) ==
    LET root == Len(h) + 1
        st0 == [h |-> Append(h, NodeInit(<<>>, Ref(dc), <<>>, gid)), gid |-> NextId(gid)]
        host_folder_list == get_child_objects(dc.hostFolder, <<>>)
        st == AddHostFolderList(st0, root, host_folder_list, 1)
        r == DCTree(st.h, root)
    IN  [h |-> r.h, gid |-> st.gid, tree |-> r.tree, err |-> r.err]

\* `[self._build_dc_tree(dc) for dc in self.datacenter_view]`, from the i-th on
RECURSIVE BuildTrees(_, _, _)
BuildTrees(st, view, i) ==
    IF i > Len(view) THEN st
    ELSE LET r == build_dc_tree(st.h, st.gid, view[i])
         IN  BuildTrees([h |-> r.h, gid |-> r.gid, trees |-> Append(st.trees, r.tree)],
                        view, i + 1)

\* the position in nodes of the last node with id i
LastWithId(h, nodes, i) ==
    CHOOSE j \in DOMAIN nodes :
        /\ h[nodes[j]].id = i
        /\ \A k \in DOMAIN nodes : h[nodes[k]].id = i => k <= j

\* `{n.id: n.value.name for n in self.nodes}`: a later node replaces the entry
IdMap(h, nodes) ==
    [i \in {h[n].id : n \in Range(nodes)} |-> h[nodes[LastWithId(h, nodes, i)]].value.name]

\* the position in nodes at which the dict above got key i
FirstWithId(h, nodes, i) ==
    CHOOSE j \in DOMAIN nodes :
        /\ h[nodes[j]].id = i
        /\ \A k \in DOMAIN nodes : h[nodes[k]].id = i => j <= k

\* `{v: k for k, v in self.id_map.items()}`: of the ids with one name the one
\* that comes last in the dict's order stays
NameMap(h, nodes) ==
    LET im == IdMap(h, nodes) IN
    [v \in {im[i] : i \in DOMAIN im} |->
        CHOOSE k \in DOMAIN im :
            /\ im[k] = v
            /\ \A k2 \in DOMAIN im :
                  im[k2] = v => FirstWithId(h, nodes, k2) <= FirstWithId(h, nodes, k)]

\* `self.nodes.extend(*(t.nodes for t in self.trees))`: list.extend takes
\* exactly one argument
extend(nodes, args) ==
    IF Len(args) = 1 THEN [err |-> "", nodes |-> nodes \o args[1]]
    ELSE [err |-> "TypeError", nodes |-> nodes]

\* ---- Monitor.py: the calls ------------------------------------------------
InitView ==
    /\ InitTree
    /\ InitMonitor
    /\ datacenter_view \in Views(MaxObjects)

\* Monitor._build_dc_tree(dc) for a datacenter of the view
BuildDcTree ==
    /\ Len(trees) < MaxTrees
    /\ \E d \in DOMAIN datacenter_view :
       \E r \in {build_dc_tree(heap, global_id, datacenter_view[d])} :
          /\ heap' = r.h
          /\ global_id' = r.gid
          /\ trees' = Append(trees, r.tree)
          /\ updates' = Append(updates, 0)
          /\ last' = [op |-> "_build_dc_tree", tree |-> Len(trees) + 1, dc |-> d,
                      err |-> r.err]
    /\ UNCHANGED <<reset_called, monVars, perfVars, genVars>>

\* Monitor.build_struct
BuildStruct ==
    /\ Len(trees) < MaxTrees
    /\ \E st \in {BuildTrees([h |-> heap, gid |-> global_id, trees |-> <<>>],
                               datacenter_view, 1)} :
       \E e \in {extend(mnodes, [i \in DOMAIN st.trees |-> st.trees[i].nodes])} :
          /\ heap' = st.h
          /\ global_id' = st.gid
          /\ trees' = trees \o st.trees
          /\ updates' = updates \o [i \in DOMAIN st.trees |-> 0]
          /\ mtrees' = [i \in DOMAIN st.trees |-> Len(trees) + i]
          /\ mnodes' = e.nodes
          /\ IF e.err = ""
             THEN /\ id_map' = IdMap(st.h, e.nodes)
                  /\ name_map' = NameMap(st.h, e.nodes)
             ELSE UNCHANGED <<id_map, name_map>>
          /\ last' = [op |-> "build_struct", tree |-> 0, err |-> e.err]
    /\ UNCHANGED <<reset_called, datacenter_view, perfVars, genVars>>

NextMonitor ==
    \/ BuildDcTree
    \/ BuildStruct

SpecMonitor == InitView /\ [][NextMonitor]_vars

\* one datacenter and _build_dc_tree alone
InitDc ==
    /\ InitTree
    /\ InitMonitor
    /\ datacenter_view \in {<<dc>> : dc \in Dcs(MaxObjects)}

NextDc == BuildDcTree

SpecDc == InitDc /\ [][NextDc]_vars

\* ---- claims about the inventory builder ----------------------------------
\* C5 (as claimed): build_struct completes for any number of datacenters, and
\* then Monitor.nodes holds every node of every hierarchy of Monitor.trees
\* exactly once and id_map has an entry for the id of each of them.
C5_FlatNodesComplete ==
    last.op = "build_struct" =>
        /\ last.err = ""
        /\ \A k \in DOMAIN mtrees : \A n \in Range(trees[mtrees[k]].nodes) :
              /\ Cardinality({i \in DOMAIN mnodes : mnodes[i] = n}) = 1
              /\ heap[n].id \in DOMAIN id_map

\* the host-or-cluster objects found below a sequence of objects, folders unwrapped
RECURSIVE CountResolved(_)
CountResolved(os) ==
    IF os = <<>> THEN 0
    ELSE (IF Head(os).kind = "Folder" THEN CountResolved(Head(os).childEntity) ELSE 1)
         + CountResolved(Tail(os))

\* the virtual machines on a sequence of hosts
RECURSIVE CountVms(_)
CountVms(hs) == IF hs = <<>> THEN 0 ELSE Len(Head(hs).vm) + CountVms(Tail(hs))

\* the hosts inside the compute resources below a sequence of objects
RECURSIVE CountClusterHosts(_)
CountClusterHosts(os) ==
    IF os = <<>> THEN 0
    ELSE (CASE Head(os).kind = "Folder" -> CountClusterHosts(Head(os).childEntity)
            [] Head(os).kind = "ComputeResource" -> Len(Head(os).host)
            [] OTHER -> 0)
         + CountClusterHosts(Tail(os))

\* the virtual machines on all hosts below a sequence of objects
RECURSIVE CountAllVms(_)
CountAllVms(os) ==
    IF os = <<>> THEN 0
    ELSE (CASE Head(os).kind = "Folder" -> CountAllVms(Head(os).childEntity)
            [] Head(os).kind = "ComputeResource" -> CountVms(Head(os).host)
            [] OTHER -> Len(Head(os).vm))
         + CountAllVms(Tail(os))

\* the parentless node above node n
RECURSIVE RootOf(_, _)
RootOf(h, n) == IF h[n].parents = <<>> THEN n ELSE RootOf(h, h[n].parents[1])

\* one cluster of two hosts with one virtual machine each, and one bare host
ExampleDc ==
    Datacenter(Folder(<<ComputeResource(<<HostSystem(<<VirtualMachine>>),
                                          HostSystem(<<VirtualMachine>>)>>),
                        HostSystem(<<>>)>>))

\* what C6 says of the hierarchy tr built for datacenter dc
BuiltAsClaimed(tr, dc) ==
    LET top == dc.hostFolder.childEntity
        made == {n \in DOMAIN heap : RootOf(heap, n) = tr.root}
    IN  /\ Len(tr.nodes) =
              1 + CountResolved(top) + CountClusterHosts(top) + CountAllVms(top)
        /\ Range(tr.nodes) = made
        /\ \A n \in made \ {tr.root} :
              Cardinality({i \in DOMAIN tr.nodes : heap[tr.nodes[i]].id = heap[n].id}) = 1
        /\ NoDup(tr.leaf)
        /\ Range(tr.leaf) = {n \in made : Len(heap[n].children) = 0}
        /\ dc = ExampleDc => (Len(tr.nodes) = 7 /\ Len(tr.leaf) = 3)
        /\ top = <<>> => (tr.nodes = <<tr.root>> /\ tr.leaf = <<tr.root>>)

\* C6: the hierarchy _build_dc_tree returns has 1 + (resolved hosts or
\* clusters) + (hosts inside clusters) + (virtual machines) nodes, holds the
\* id of every node made for the datacenter exactly once, and its leaf list
\* is exactly the nodes without children; the example inventory gives 7
\* nodes and 3 leaves, a datacenter without hosts a root that is the only leaf.
C6_BuildDcTreeCounts ==
    last.op = "_build_dc_tree" =>
        BuiltAsClaimed(trees[last.tree], datacenter_view[last.dc])

\* C6 witness: the hierarchy of the example inventory has been built
C6_Witness ==
    /\ last.op = "_build_dc_tree"
    /\ datacenter_view[last.dc] = ExampleDc
    /\ Len(trees[last.tree].nodes) = 7
    /\ Len(trees[last.tree].leaf) = 3

\* ---- Monitor.py: performance management and the query builder -------------
\* An optional argument is <<>> for None and <<v>> for the value v.
\* mutant of Truthy: the test is `is not None`
Truthy_not_none(x) == x # <<>>

\* Python's truth of an optional integer: None and 0 are false
Truthy(x) == x # <<>> /\ x[1] # 0

\* Python's truth of Monitor.current_supported and Monitor.summary_supported
IsTrue(flag) == flag = <<TRUE>>

\* perf_manager.historicalInterval as a server may report it: the sampling
\* periods "Past day" and "Past month", each enabled or not
ServerIntervals ==
    {<<[samplingPeriod |-> 300, enabled |-> a],
       [samplingPeriod |-> 7200, enabled |-> b]>> : a, b \in BOOLEAN}

\* perf_manager.perfCounter of the server as manage_perf keys it: counter
\* key -> unitInfo.label
ServerCounters == [k \in 6..(5 + MaxCounters) |-> "unit"]

\* `for i in self.perf_manager.historicalInterval` of manage_perf, from the
\* k-th on
RECURSIVE AppendEnabled(_, _, _)
AppendEnabled(hist, ivs, k) ==
    IF k > Len(ivs) THEN hist
    ELSE AppendEnabled(IF ivs[k].enabled THEN Append(hist, ivs[k].samplingPeriod)
                       ELSE hist,
                       ivs, k + 1)

\* mutant of current_interval: an explicit interval has to be a historical one
current_interval_hist_only(rr, hist, interval) ==
    IF interval = <<>> THEN [err |-> "", interval |-> <<rr>>]
    ELSE IF interval[1] \notin Range(hist)
         THEN [err |-> "ValueError", interval |-> interval]
         ELSE [err |-> "", interval |-> interval]

\* _build_query, `if self.current_supported:` branch
current_interval(rr, hist, interval) ==
    IF interval = <<>> THEN [err |-> "", interval |-> <<rr>>]
    ELSE IF interval[1] # rr /\ interval[1] \notin Range(hist)
         THEN [err |-> "ValueError", interval |-> interval]
         ELSE [err |-> "", interval |-> interval]

\* _build_query, `elif self.summary_supported:` branch; None is in no list
summary_interval(hist, interval) ==
    IF interval = <<>> \/ interval[1] \notin Range(hist)
    THEN [err |-> "ValueError", interval |-> interval]
    ELSE [err |-> "", interval |-> interval]

\* mutant of resolve_interval: the historical-only provider is treated as the
\* real-time one
resolve_interval_merged(self_, interval) ==
    IF IsTrue(self_.current_supported) \/ IsTrue(self_.summary_supported)
    THEN current_interval(self_.refresh_rate, self_.historical_intervals, interval)
    ELSE [err |-> "RuntimeError", interval |-> interval]

\* mutant of resolve_interval: `else` in place of `elif self.summary_supported`,
\* so that no provider is without statistics
resolve_interval_no_unavailable(self_, interval) ==
    IF IsTrue(self_.current_supported)
    THEN current_interval(self_.refresh_rate, self_.historical_intervals, interval)
    ELSE summary_interval(self_.historical_intervals, interval)

\* _build_query, the three branches on the provider's capabilities
resolve_interval(self_, interval) ==
    IF IsTrue(self_.current_supported)
    THEN current_interval(self_.refresh_rate, self_.historical_intervals, interval)
    ELSE IF IsTrue(self_.summary_supported)
         THEN summary_interval(self_.historical_intervals, interval)
         ELSE [err |-> "RuntimeError", interval |-> interval]

\* `[MetricId(counterId=c, instance=i) for c in counter_ids for i in instances]`
MetricIds(counter_ids, instances) ==
    [k \in 1..(Len(counter_ids) * Len(instances)) |->
        [counterId |-> counter_ids[((k - 1) \div Len(instances)) + 1],
         instance  |-> instances[((k - 1) % Len(instances)) + 1]]]

\* no query is returned: the call raised
NoQuery == <<>>

Raise(e) == [err |-> e, warned |-> FALSE, query |-> NoQuery]

\* Monitor._build_query on the monitor self_ with the arguments a: the
\* exception raised if any, whether the RuntimeWarning was issued, the query.
\* start is a datetime, which is true whenever it is not None.
build_query(self_, a) ==
    IF ~(Truthy(a.max_samples) \/ a.start # <<>>) THEN Raise("TypeError")
    ELSE IF a.fmt \notin {"csv", "normal"} THEN Raise("ValueError")
    ELSE LET r == resolve_interval(self_, a.interval) IN
         IF r.err # "" THEN Raise(r.err)
         ELSE [err    |-> "",
               warned |-> r.interval[1] \in Range(self_.historical_intervals)
                          /\ Truthy(a.max_samples),
               query  |-> <<[entity    |-> a.entity,
                             metricId  |-> MetricIds(
                                 IF a.counter_ids = <<>> THEN <<>> ELSE a.counter_ids[1],
                                 IF a.instances = <<>> THEN <<"*">> ELSE a.instances[1]),
                             intervalId |-> r.interval[1],
                             startTime |-> a.start,
                             endTime   |-> a.end,
                             maxSample |-> a.max_samples,
                             format    |-> a.fmt]>>]

\* the arguments _build_query is called with: counters and instances both
\* left out or both given, an end time only with a start time
QueryArgs ==
    {[entity      |-> "vm",
      counter_ids |-> m.counter_ids,
      instances   |-> m.instances,
      interval    |-> iv,
      start       |-> t.start,
      end         |-> t.end,
      max_samples |-> ms,
      fmt         |-> f] :
        m  \in {[counter_ids |-> <<>>, instances |-> <<>>],
                [counter_ids |-> <<<<6, 7>>>>, instances |-> <<<<"">>>>]},
        iv \in {<<>>, <<20>>, <<60>>, <<300>>, <<7200>>},
        t  \in {[start |-> <<>>, end |-> <<>>], [start |-> <<1>>, end |-> <<>>],
                [start |-> <<1>>, end |-> <<2>>]},
        ms \in {<<>>, <<0>>, <<1>>},
        f  \in {"normal", "csv", "xml"}}

\* the monitor's fields _build_query reads
Self ==
    [current_supported    |-> current_supported,
     summary_supported    |-> summary_supported,
     refresh_rate         |-> refresh_rate,
     historical_intervals |-> historical_intervals]

\* Monitor.manage_perf
ManagePerf ==
    /\ \E ivs \in ServerIntervals :
       \E h \in {AppendEnabled(historical_intervals, ivs, 1)} :
          /\ Len(h) <= MaxIntervals
          /\ historical_intervals' = h
    /\ all_counters' = ServerCounters
    /\ last' = [op |-> "manage_perf"]
    /\ UNCHANGED <<treeVars, monVars, genVars, current_supported, summary_supported, refresh_rate>>

\* Monitor.query_provider, for the summary the server returns
QueryProvider ==
    /\ \E cs \in BOOLEAN, ss \in BOOLEAN, rr \in {-1, 20, 300} :
          /\ current_supported' = <<cs>>
          /\ summary_supported' = <<ss>>
          /\ refresh_rate' = rr
    /\ last' = [op |-> "query_provider"]
    /\ UNCHANGED <<treeVars, monVars, genVars, all_counters, historical_intervals>>

\* Monitor._build_query(entity, counter_ids, instances, interval, start, end,
\* max_samples, fmt)
BuildQuery ==
    /\ \E a \in QueryArgs :
       \E r \in {build_query(Self, a)} :
          last' = [op |-> "_build_query", args |-> a, err |-> r.err,
                   warned |-> r.warned, query |-> r.query]
    /\ UNCHANGED <<treeVars, monVars, perfVars, genVars>>

NextQuery ==
    \/ ManagePerf
    \/ QueryProvider
    \/ BuildQuery

SpecQuery == Init /\ [][NextQuery]_vars

\* ---- claims about the query builder --------------------------------------
\* C9 (as claimed): _build_query raises the missing-time-bounds error
\* (TypeError) exactly when start and max_samples are both None, whatever the
\* format, the interval and the capabilities, and then returns no query.
C9_MissingTimeBounds ==
    last.op = "_build_query" =>
        /\ (last.args.start = <<>> /\ last.args.max_samples = <<>>)
              <=> last.err = "TypeError"
        /\ last.err = "TypeError" => last.query = NoQuery

\* the call specifies a time range or a sample limit, and a format
ValidBoundsAndFormat(a) ==
    /\ Truthy(a.max_samples) \/ a.start # <<>>
    /\ a.fmt \in {"csv", "normal"}

\* C10: with current_supported true and valid time bounds and format,
\* _build_query without an interval returns a query whose interval is the
\* refresh rate; with an interval that is the refresh rate or an enabled
\* historical interval it returns a query with that interval; with any other
\* interval it raises the invalid-interval error (ValueError) and returns no
\* query.
C10_CurrentSupportedInterval ==
    (/\ last.op = "_build_query"
     /\ IsTrue(current_supported)
     /\ ValidBoundsAndFormat(last.args)) =>
        LET iv == last.args.interval IN
        IF iv = <<>>
        THEN /\ last.err = ""
             /\ last.query # NoQuery
             /\ last.query[1].intervalId = refresh_rate
        ELSE IF iv[1] = refresh_rate \/ iv[1] \in Range(historical_intervals)
             THEN /\ last.err = ""
                  /\ last.query # NoQuery
                  /\ last.query[1].intervalId = iv[1]
             ELSE /\ last.err = "ValueError"
                  /\ last.query = NoQuery

\* C10 witness: real-time statistics are supported, a historical interval is
\* enabled, and a call without an interval got a query at the refresh rate
C10_Witness ==
    /\ last.op = "_build_query"
    /\ IsTrue(current_supported)
    /\ refresh_rate = 20
    /\ historical_intervals # <<>>
    /\ ValidBoundsAndFormat(last.args)
    /\ last.args.interval = <<>>
    /\ last.err = ""
    /\ last.query # NoQuery
    /\ last.query[1].intervalId = 20

\* C11: with current_supported false, summary_supported true and valid time
\* bounds and format, _build_query returns a query only for an interval that
\* is an enabled historical interval; for every other interval, None and the
\* refresh rate included, it raises the invalid-interval error (ValueError)
\* and returns no query.
C11_SummaryOnlyInterval ==
    (/\ last.op = "_build_query"
     /\ ~IsTrue(current_supported)
     /\ IsTrue(summary_supported)
     /\ ValidBoundsAndFormat(last.args)) =>
        LET iv == last.args.interval IN
        /\ last.query # NoQuery =>
              (iv # <<>> /\ iv[1] \in Range(historical_intervals))
        /\ (iv = <<>> \/ iv[1] \notin Range(historical_intervals)) =>
              (last.err = "ValueError" /\ last.query = NoQuery)

\* C11 witness: a historical-only provider with an enabled interval was asked
\* for the refresh rate, which is not enabled, and the call raised ValueError
C11_Witness ==
    /\ last.op = "_build_query"
    /\ ~IsTrue(current_supported)
    /\ IsTrue(summary_supported)
    /\ historical_intervals # <<>>
    /\ ValidBoundsAndFormat(last.args)
    /\ last.args.interval = <<refresh_rate>>
    /\ refresh_rate \notin Range(historical_intervals)
    /\ last.err = "ValueError"
    /\ last.query = NoQuery

\* C12: with neither current_supported nor summary_supported true,
\* _build_query never returns a query, and with valid time bounds and format
\* it raises the stats-unavailable error (RuntimeError) for every interval.
C12_StatsUnavailable ==
    (/\ last.op = "_build_query"
     /\ ~IsTrue(current_supported)
     /\ ~IsTrue(summary_supported)) =>
        /\ last.query = NoQuery
        /\ ValidBoundsAndFormat(last.args) => last.err = "RuntimeError"

\* C12 witness: the provider reported neither capability, and a call for an
\* enabled historical interval raised RuntimeError
C12_Witness ==
    /\ last.op = "_build_query"
    /\ current_supported = <<FALSE>>
    /\ summary_supported = <<FALSE>>
    /\ ValidBoundsAndFormat(last.args)
    /\ last.args.interval # <<>>
    /\ last.args.interval[1] \in Range(historical_intervals)
    /\ last.err = "RuntimeError"
    /\ last.query = NoQuery

\* C13 (as claimed): every query _build_query returns has exactly one of a
\* start time and a sample limit set, never both and never neither.
C13_ExactlyOneBound ==
    (last.op = "_build_query" /\ last.query # NoQuery) =>
        (last.query[1].startTime # <<>>) # (last.query[1].maxSample # <<>>)

\* C13 (amended): every query _build_query returns has a start time or a
\* non-zero sample limit, never neither; it may have both.
C13_AtLeastOneBound ==
    (last.op = "_build_query" /\ last.query # NoQuery) =>
        \/ last.query[1].startTime # <<>>
        \/ last.query[1].maxSample \notin {<<>>, <<0>>}

\* C13 witness: a query was returned that has a start time and a sample limit
C13_Witness ==
    /\ last.op = "_build_query"
    /\ last.query # NoQuery
    /\ last.query[1].startTime = <<1>>
    /\ last.query[1].maxSample = <<1>>

\* C14 (as claimed): a call of _build_query that returns a query issues the
\* max-samples-ignored warning exactly when the resolved interval is an
\* enabled historical interval and max_samples was supplied; the warning
\* never aborts the call.
C14_MaxSamplesWarning ==
    last.op = "_build_query" =>
        /\ last.warned => (last.err = "" /\ last.query # NoQuery)
        /\ last.query # NoQuery =>
              (last.warned <=>
                  (/\ last.query[1].intervalId \in Range(historical_intervals)
                   /\ last.args.max_samples # <<>>))

\* ---- Monitor.py: statistics of an entity ----------------------------------
\* Monitor.realtime_stats up to its call of the provider: the query built as
\* _build_query(entity, counter_ids, instances, max_samples=1)
realtime_query(self_, entity, counter_ids, instances) ==
    build_query(self_, [entity |-> entity, counter_ids |-> counter_ids,
                        instances |-> instances, interval |-> <<>>,
                        start |-> <<>>, end |-> <<>>, max_samples |-> <<1>>,
                        fmt |-> "normal"])

\* the series of one metric id with k samples each: one per instance of the
\* entity where the instance asked for is "*", m of them
SeriesOf(id, m, k) ==
    IF id.instance = "*"
    THEN [j \in 1..m |-> [id    |-> [counterId |-> id.counterId, instance |-> ToString(j)],
                          value |-> [i \in 1..k |-> 10 * j + i]]]
    ELSE <<[id |-> id, value |-> [i \in 1..k |-> i]]>>

\* the series of the metric ids from the n-th on
RECURSIVE Series(_, _, _, _)
Series(metricId, n, m, k) ==
    IF n > Len(metricId) THEN <<>>
    ELSE SeriesOf(metricId[n], m, k) \o Series(metricId, n + 1, m, k)

\* vim.PerformanceManager.QueryPerf(self.perf_manager, [query]): what the
\* provider may return, nothing or one EntityMetric whose series have as many
\* values as there are samples
QueryPerf(query) ==
    {<<>>} \cup
    {<<[sampleInfo |-> [i \in 1..k |-> [timestamp |-> i]],
        value      |-> Series(query.metricId, 1, m, k)]>> :
        m \in 1..MaxInstances, k \in 0..MaxTimestamps}

\* `for i in range(len(sample_info))` of latest_stats_by_specs, from the i-th
\* sample on: data.append(new_row, ignore_index=True)
RECURSIVE AppendSamples(_, _, _, _, _)
AppendSamples(data, counters, sample_info, v, i) ==
    IF i > Len(sample_info) THEN data
    ELSE AppendSamples(
             Append(data, [index     |-> Len(data),
                           key       |-> v.id.counterId,
                           instance  |-> v.id.instance,
                           timestamp |-> sample_info[i].timestamp,
                           unit      |-> counters[v.id.counterId],
                           value     |-> v.value[i],
                           name      |-> "NaN"]),
             counters, sample_info, v, i + 1)

\* `for v in value`, from the n-th series on
RECURSIVE AppendValues(_, _, _, _, _)
AppendValues(data, counters, sample_info, value, n) ==
    IF n > Len(value) THEN data
    ELSE AppendValues(AppendSamples(data, counters, sample_info, value[n], 1),
                      counters, sample_info, value, n + 1)

\* `for r in results`, from the n-th result on
RECURSIVE AppendResults(_, _, _, _)
AppendResults(data, counters, results, n) ==
    IF n > Len(results) THEN data
    ELSE AppendResults(AppendValues(data, counters, results[n].sampleInfo,
                                    results[n].value, 1),
                       counters, results, n + 1)

Reverse(rows) == [i \in DOMAIN rows |-> rows[Len(rows) + 1 - i]]

\* row put into rows, which are sorted by key, behind the rows with the same key
RECURSIVE InsertByKey(_, _)
InsertByKey(rows, row) ==
    IF rows = <<>> THEN <<row>>
    ELSE IF rows[Len(rows)].key <= row.key THEN Append(rows, row)
         ELSE Append(InsertByKey(SubSeq(rows, 1, Len(rows) - 1), row), rows[Len(rows)])

RECURSIVE SortFrom(_, _, _)
SortFrom(sorted, rows, n) ==
    IF n > Len(rows) THEN sorted
    ELSE SortFrom(InsertByKey(sorted, rows[n]), rows, n + 1)

\* mutant of sort_values: the rows stay as they were appended
sort_values_none(data, tie) == data

\* data.sort_values(by='key'): the rows keep their index labels; the default
\* sort is not stable, rows with one key come out in either order (tie)
sort_values(data, tie) == SortFrom(<<>>, IF tie THEN Reverse(data) ELSE data, 1)

\* .reset_index(drop=True)
reset_index(data) == [i \in DOMAIN data |-> [data[i] EXCEPT !.index = i - 1]]

\* Monitor.latest_stats_by_specs from the provider's results on
reshape(counters, results, entity, tie) ==
    LET sorted == reset_index(sort_values(AppendResults(<<>>, counters, results, 1), tie))
    IN  [i \in DOMAIN sorted |-> [sorted[i] EXCEPT !.name = entity]]

\* the counter_ids an entity's statistics are asked for: None or counters of
\* the server in some order
CounterIdArgs ==
    {<<>>} \cup
    {<<c>> : c \in {q \in UNION {[1..n -> DOMAIN ServerCounters] : n \in 0..MaxCounters} :
                       NoDup(q)}}

\* a Monitor after manage_perf() and query_provider(), as __enter__ calls
\* them, on a server that has its historical intervals enabled
InitStats ==
    /\ InitTree
    /\ \E ivs \in {v \in ServerIntervals : \A k \in DOMAIN v : v[k].enabled} :
          historical_intervals = AppendEnabled(<<>>, ivs, 1)
    /\ all_counters = ServerCounters
    /\ \E cs \in BOOLEAN, ss \in BOOLEAN, rr \in {-1, 20, 300} :
          /\ current_supported = <<cs>>
          /\ summary_supported = <<ss>>
          /\ refresh_rate = rr
    /\ datacenter_view = <<>>
    /\ mtrees = <<>>
    /\ mnodes = <<>>
    /\ id_map = <<>>
    /\ name_map = <<>>

\* Monitor.latest_stats_by_specs(entity, counter_ids, instances)
LatestStatsBySpecs ==
    /\ \E cids \in CounterIdArgs, inst \in {<<>>, <<<<"">>>>} :
       \E q \in {realtime_query(Self, "vm", cids, inst)} :
          IF q.err # ""
          THEN last' = [op |-> "latest_stats_by_specs", err |-> q.err,
                        queried |-> FALSE, results |-> <<>>, data |-> <<>>]
          ELSE \E results \in QueryPerf(q.query[1]), tie \in BOOLEAN :
                  last' = [op |-> "latest_stats_by_specs", err |-> "",
                           queried |-> TRUE, results |-> results,
                           data |-> reshape(all_counters, results, "vm", tie)]
    /\ UNCHANGED <<treeVars, monVars, perfVars, genVars>>

NextStats == LatestStatsBySpecs

SpecStats == InitStats /\ [][NextStats]_vars

\* ---- claims about the statistics ------------------------------------------
\* the rows a provider result of N counters, M instances and K samples makes
ExpectedRows(results) ==
    IF results = <<>> THEN 0
    ELSE Cardinality({results[1].value[n].id.counterId : n \in DOMAIN results[1].value})
         * Cardinality({results[1].value[n].id.instance : n \in DOMAIN results[1].value})
         * Len(results[1].sampleInfo)

\* C15: latest_stats_by_specs turns a provider result of N counters, M
\* instances and K sample timestamps into exactly N * M * K rows, in
\* non-decreasing order of counter id, indexed 0 .. N * M * K - 1; when the
\* provider returns nothing the result is empty and no error is raised.
C15_ReshapeRows ==
    (last.op = "latest_stats_by_specs" /\ last.queried) =>
        /\ last.err = ""
        /\ Len(last.data) = ExpectedRows(last.results)
        /\ \A i \in DOMAIN last.data : last.data[i].index = i - 1
        /\ \A i, j \in DOMAIN last.data :
              i < j => last.data[i].key <= last.data[j].key
        /\ last.results = <<>> => last.data = <<>>

\* C15 witness: a result of 2 counters, 2 instances and 2 samples whose series
\* came with the larger counter id first was turned into 8 rows
C15_Witness ==
    /\ last.op = "latest_stats_by_specs"
    /\ last.queried
    /\ last.results # <<>>
    /\ Len(last.results[1].sampleInfo) = 2
    /\ Len(last.results[1].value) = 4
    /\ last.results[1].value[1].id.counterId > last.results[1].value[4].id.counterId
    /\ Len(last.data) = 8
    /\ last.data[1].key < last.data[8].key

\* ---- Tree.py: _bfs as a generator advanced step by step -------------------
\* g = DCTree._bfs(root_): a generator object; none of its code has run yet.
\* The traversals start from one root.
StartBfs(g) ==
    /\ gens[g].pc = "none"
    /\ \E root_ \in DOMAIN heap :
          /\ \A o \in Traversals : gens[o].pc # "none" => gens[o].root = root_
          /\ gens' = [gens EXCEPT ![g] = [NoGenerator EXCEPT !.pc = "created",
                                                             !.root = root_]]
    /\ UNCHANGED <<treeVars, monVars, perfVars, last>>

\* next(g) on a generator that has not run: up to the first `yield u`
FirstNext(g) ==
    /\ gens[g].pc = "created"
    /\ heap' = [heap EXCEPT ![gens[g].root].visited = TRUE]
    /\ gens' = [gens EXCEPT ![g].pc = "yielded", ![g].u = gens[g].root,
                            ![g].out = <<gens[g].root>>]
    /\ UNCHANGED <<global_id, trees, reset_called, updates, monVars, perfVars, last>>

\* next(g) on a generator suspended at `yield u`: the loop over u.children,
\* then the next `yield u`, or the end of the generator if the queue is empty
ResumeNext(g) ==
    /\ gens[g].pc = "yielded"
    /\ \E r \in {BfsChildren(heap, gens[g].q, gens[g].u, 1)} :
          /\ heap' = r.h
          /\ gens' = IF r.q = <<>>
                     THEN [gens EXCEPT ![g].pc = "done", ![g].q = <<>>]
                     ELSE [gens EXCEPT ![g].u = Head(r.q), ![g].q = Tail(r.q),
                                       ![g].out = Append(@, Head(r.q))]
    /\ UNCHANGED <<global_id, trees, reset_called, updates, monVars, perfVars, last>>

\* the hierarchy is wired before the traversals are made and stays as it is
NoTraversal == \A g \in Traversals : gens[g].pc = "none"

WireBfs == NoTraversal /\ (NewRoot \/ NewChild \/ AppendChild)

NextBfs ==
    \/ WireBfs
    \/ \E g \in Traversals : StartBfs(g)
    \/ \E g \in Traversals : FirstNext(g)
    \/ \E g \in Traversals : ResumeNext(g)

SpecBfs == Init /\ [][NextBfs]_vars

\* ---- claims about interleaved traversals ----------------------------------
\* how often node n was yielded by traversal g
Yields(g, n) == Cardinality({i \in DOMAIN gens[g].out : gens[g].out[i] = n})

BothDone == \A g \in Traversals : gens[g].pc = "done"

\* C16: when two _bfs traversals from one root, advanced in any interleaving
\* with no reset of the visited flags in between, have both finished, every
\* reachable node has been yielded: the root by both traversals, every other
\* node by exactly one of them.
C16_InterleavedBfs ==
    BothDone =>
        LET root_ == gens[1].root IN
        /\ Range(gens[1].out) \cup Range(gens[2].out) = Reachable(heap, root_)
        /\ \A g \in Traversals : Yields(g, root_) = 1
        /\ \A n \in Reachable(heap, root_) \ {root_} :
              Yields(1, n) + Yields(2, n) = 1

\* C16 witness: both traversals have finished over three reachable nodes, and
\* the first of them yielded the root alone
C16_Witness ==
    /\ BothDone
    /\ Cardinality(Reachable(heap, gens[1].root)) = 3
    /\ gens[1].out = <<gens[1].root>>
    /\ Len(gens[2].out) = 3
====
